---- MODULE Spec2Model ----
(***************************************************************************)
(* Model of the health / logging / metrics facade of shadcn-admin:         *)
(*   src/src/shared/health/index.ts   (class Health)                       *)
(*   src/src/shared/logging/index.ts  (class Logger)                       *)
(*   src/src/api/healthz.ts, src/unnamed/part_000 (HTTP handlers)          *)
(*   src/unnamed/part_002             (class Metrics)                      *)
(*                                                                         *)
(* Spec        : the health registry under direct callers                  *)
(* SpecHttp    : the health registry behind the four HTTP handlers         *)
(* SpecLog     : the loggers                                               *)
(* SpecMetrics : the metrics registry driven by its callers                *)
(* SpecSim     : the two servers with their simulation endpoints           *)
(*                                                                         *)
(* Time is the value of Date.now() in milliseconds.  A probe is identified *)
(* by its category, its name and its generation (1 for the first probe     *)
(* registered under the name, 2 for the one that replaced it, ...); what   *)
(* its promise does (resolve true/false, reject, never settle) is chosen   *)
(* by the environment while the check runs.                                *)
(***************************************************************************)
EXTENDS Integers, FiniteSets, Sequences, TLC

\* ------------------------------------------------------------------ bounds
Names == {"app", "flaky"}          \* check names used by the callers
MaxRegs == 2                       \* register calls in one behaviour
MaxNow == 5100                     \* the clock is not advanced beyond this
MaxLoggers == 3                    \* Logger instances in one behaviour
MaxRuns == 2                       \* check calls in one behaviour
TickStep == 2500                   \* the clock's ordinary step
ExplicitTimeouts == {0, 100}       \* timeout arguments passed explicitly
MaxMetricCalls == 4                \* updating calls on the Metrics instance
MaxPosts == 2                      \* POSTs to the simulation endpoints
MaxFlights == 2                    \* invocations started without awaiting
MaxRequests == 2                   \* requests of the API client
MaxProfileCalls == 2               \* get-or-create requests and calls
SignificandBits == 12              \* significant bits a number carries

\* ------------------------------------------------------- program constants
DefaultTimeout == 5000             \* `timeout: number = 5000`, `|| 5000`
Milli == 1000                      \* `responseTime / 1000`: thousandths

Undefined == "undefined"
Categories == {"liveness", "readiness"}
\* the timeout argument of a register call: a number, or not passed
Given(t) == [given |-> TRUE, ms |-> t]
Omitted == [given |-> FALSE, ms |-> 0]
TimeoutArgs == {Given(t) : t \in ExplicitTimeouts} \cup {Omitted}
\* who awaits checkLiveness()/checkReadiness()
Callers == {"direct", "api", "dbServer", "healthServer", "facade"}
\* what a probe's promise can do
Outcomes == {"true", "false", "throwError", "throwOther"}
\* the probe functions: one of a caller, whose promise does any of the
\* above, and the servers' `async () => false` and `async () => true`
\* (part_000:291-318), which resolve at once
EnvProbe == "env"
Checks == {EnvProbe, "false", "true"}
\* the check the simulation endpoints register (part_000:291, 311, 316)
TestFailure == "test-failure"
AllNames == Names \cup {TestFailure}
\* the two servers of part_000
Servers == {"dbServer", "healthServer"}
\* `const { type } = req.body` (part_000:289)
TypeArgs == Categories \cup {"other"}
ProbeErrorMessage == "probe failed"

VARIABLES
    livenessChecks,   \* Health.livenessChecks : name -> {gen, timeout}
    readinessChecks,  \* Health.readinessChecks
    registrations,    \* number of register calls so far
    registered,       \* category -> name -> number of register calls for it
    now,              \* Date.now()
    invocations,      \* number of checkLiveness/checkReadiness calls so far
    pc,               \* position of the invocation in flight
    caller,           \* who started it
    category,         \* which map it runs
    entries,          \* Array.from(checks.entries()) taken by runChecks
    startTime,        \* name -> startTime of the map callback
    promise,          \* name -> state of checkPromise
    timer,            \* name -> state of the setTimeout of timeoutPromise
    race,             \* name -> which of the two settled Promise.race
    results,          \* runChecks' results object
    overallStatus,    \* runChecks' overallStatus
    ret,              \* the HealthStatus runChecks resolved with
    response,         \* the HTTP response of the handler
    loggers,          \* the Logger instances, in order of construction
    call,             \* the last info/warn/error/debug call and its argument
    entry,            \* the LogEntry that call handed to output()
    counters,         \* Metrics.counters : name -> labelKey -> number
    gauges,           \* Metrics.gauges
    histograms,       \* Metrics.histograms : metricKey -> number[]
    text,             \* what the last getMetrics() returned, as lines
    metricCall,       \* the last call made on the Metrics instance
    metricCalls,      \* number of updating calls so far
    simulation,       \* server -> category -> what the last POST asked for
    simulationAtStart,\* simulation[caller][category] when the GET started
    posts,            \* number of POSTs to the simulation endpoints so far
    flights,          \* the runChecks invocations, in order of their start
    apiRequests,      \* the API client's requests, in order of their start
    userProfiles,     \* rows of the UserProfile table, in order of creation
    profileCalls      \* the get-or-create calls, in order of their start

registryVars == <<livenessChecks, readinessChecks, registrations, registered>>

runVars == <<invocations, pc, caller, category, entries, startTime, promise,
             timer, race, results, overallStatus, ret, response>>

simVars == <<simulation, simulationAtStart, posts>>

healthVars == <<registryVars, now, runVars, simVars>>

logVars == <<loggers, call, entry>>

metricsVars == <<counters, gauges, histograms, text, metricCall, metricCalls>>

appVars == <<flights, apiRequests, userProfiles, profileCalls>>

vars == <<healthVars, logVars, metricsVars, appVars>>

EmptyMap == [n \in {} |-> 0]
NoRet == [status |-> "none", checks |-> EmptyMap]
NoResponse == [code |-> 0, body |-> "none"]

\* mutant: the entry of a name already present is kept
MapSet_KeepFirst(m, k, v) ==
    IF k \in DOMAIN m THEN m
    ELSE [n \in (DOMAIN m) \cup {k} |-> IF n = k THEN v ELSE m[n]]

\* Map.prototype.set
MapSet(m, k, v) == [n \in (DOMAIN m) \cup {k} |-> IF n = k THEN v ELSE m[n]]

\* `timeout: number = 5000` of registerLiveness / registerReadiness
DefaultParam(t) == IF t.given THEN t.ms ELSE DefaultTimeout

\* `healthCheck.timeout || 5000` : 0 is falsy
EffectiveTimeout(t) == IF t = 0 THEN DefaultTimeout ELSE t

ChecksOf(c) == IF c = "liveness" THEN livenessChecks ELSE readinessChecks

\* mutant: the timer is armed with no delay
Deadline_Immediate(n) == startTime[n]

Deadline(n) == startTime[n] + EffectiveTimeout(entries[n].timeout)

\* probes of the invocation in flight whose map callback has not finished
Unrecorded == {n \in DOMAIN entries : race[n] = "pending"}

HealthInit ==
    /\ livenessChecks = EmptyMap
    /\ readinessChecks = EmptyMap
    /\ registrations = 0
    /\ registered = [c \in Categories |-> [n \in AllNames |-> 0]]
    /\ now = 0
    /\ invocations = 0
    /\ pc = "idle"
    /\ caller = "direct"
    /\ category = "liveness"
    /\ entries = EmptyMap
    /\ startTime = EmptyMap
    /\ promise = EmptyMap
    /\ timer = EmptyMap
    /\ race = EmptyMap
    /\ results = EmptyMap
    /\ overallStatus = "healthy"
    /\ ret = NoRet
    /\ response = NoResponse
    /\ simulation = [s \in Servers |-> [c \in Categories |-> "none"]]
    /\ simulationAtStart = "none"
    /\ posts = 0

\* how many probes have been registered under the name in the map
Generation(m, name) == IF name \in DOMAIN m THEN m[name].gen ELSE 0

\* checks.set(name, { name, check, timeout }) (health/index.ts:26, 31)
Registered(m, name, check, t) ==
    MapSet(m, name, [gen |-> Generation(m, name) + 1,
                     timeout |-> DefaultParam(t), probe |-> check])

\* what the servers are asked to simulate for the caller's category
SimulationFor(who, c) ==
    IF who \in Servers THEN simulation[who][c] ELSE "none"

\* health/index.ts:25-28
RegisterLiveness(name, check, t) ==
    /\ registrations < MaxRegs
    /\ livenessChecks' = Registered(livenessChecks, name, check, t)
    /\ registrations' = registrations + 1
    /\ registered' = [registered EXCEPT !["liveness"][name] = @ + 1]
    /\ UNCHANGED <<appVars, readinessChecks, now, runVars, logVars, metricsVars, simVars>>

\* health/index.ts:30-33
RegisterReadiness(name, check, t) ==
    /\ registrations < MaxRegs
    /\ readinessChecks' = Registered(readinessChecks, name, check, t)
    /\ registrations' = registrations + 1
    /\ registered' = [registered EXCEPT !["readiness"][name] = @ + 1]
    /\ UNCHANGED <<appVars, livenessChecks, now, runVars, logVars, metricsVars, simVars>>

\* the callers whose source is present for the category
\* (src/api/healthz.ts serves liveness only)
CallerServes(who, c) == who = "api" => c = "liveness"

\* health/index.ts:35-48, reached through checkLiveness/checkReadiness
\* (93-101): the map callbacks run synchronously up to their await, so every
\* probe is started and every timer armed in the same step.
StartChecks(who, c) ==
    /\ pc \in {"idle", "returned", "rejected", "responded"}
    /\ invocations < MaxRuns
    /\ CallerServes(who, c)
    /\ invocations' = invocations + 1
    /\ pc' = "running"
    /\ caller' = who
    /\ category' = c
    /\ entries' = ChecksOf(c)
    /\ startTime' = [n \in DOMAIN ChecksOf(c) |-> now]
    /\ promise' = [n \in DOMAIN ChecksOf(c) |-> "pending"]
    /\ timer' = [n \in DOMAIN ChecksOf(c) |-> "armed"]
    /\ race' = [n \in DOMAIN ChecksOf(c) |-> "pending"]
    /\ results' = EmptyMap
    /\ overallStatus' = "healthy"
    /\ ret' = NoRet
    /\ response' = NoResponse
    /\ simulationAtStart' = SimulationFor(who, c)
    /\ UNCHANGED <<appVars, registryVars, now, logVars, metricsVars, simulation, posts>>

\* health/index.ts:94 / 99: logger.debug has no fallback path
\* (logging/index.ts:36-49); when its write throws, the async method rejects
\* before runChecks is entered.
StartChecksLogFails(who, c) ==
    /\ pc \in {"idle", "returned", "rejected", "responded"}
    /\ invocations < MaxRuns
    /\ CallerServes(who, c)
    /\ invocations' = invocations + 1
    /\ pc' = "rejected"
    /\ caller' = who
    /\ category' = c
    /\ entries' = EmptyMap
    /\ startTime' = EmptyMap
    /\ promise' = EmptyMap
    /\ timer' = EmptyMap
    /\ race' = EmptyMap
    /\ results' = EmptyMap
    /\ overallStatus' = "healthy"
    /\ ret' = NoRet
    /\ response' = NoResponse
    /\ simulationAtStart' = SimulationFor(who, c)
    /\ UNCHANGED <<appVars, registryVars, now, logVars, metricsVars, simulation, posts>>

\* mutant: only a raised failure counts as unhealthy
ResultOf_FalseIsHealthy(outcome, duration) ==
    CASE outcome \in {"true", "false"} ->
           [status |-> "healthy", message |-> Undefined, duration |-> duration]
      [] outcome = "throwError" ->
           [status |-> "unhealthy", message |-> ProbeErrorMessage,
            duration |-> duration]
      [] outcome = "throwOther" ->
           [status |-> "unhealthy", message |-> "Unknown error",
            duration |-> duration]
      [] outcome = "timeout" ->
           [status |-> "unhealthy", message |-> "Check timeout",
            duration |-> duration]

\* health/index.ts:52-55 and 69-73: the entry written for an outcome
ResultOf(outcome, duration) ==
    CASE outcome = "true" ->
           [status |-> "healthy", message |-> Undefined, duration |-> duration]
      [] outcome = "false" ->
           [status |-> "unhealthy", message |-> Undefined,
            duration |-> duration]
      [] outcome = "throwError" ->
           [status |-> "unhealthy", message |-> ProbeErrorMessage,
            duration |-> duration]
      [] outcome = "throwOther" ->
           [status |-> "unhealthy", message |-> "Unknown error",
            duration |-> duration]
      [] outcome = "timeout" ->
           [status |-> "unhealthy", message |-> "Check timeout",
            duration |-> duration]

\* mutant: the last probe to finish decides the overall status
StatusAfter_LastWins(outcome, status) ==
    IF outcome = "true" THEN "healthy" ELSE "unhealthy"

\* health/index.ts:57-59, 74
StatusAfter(outcome, status) ==
    IF outcome = "true" THEN status ELSE "unhealthy"

\* mutant: no try/catch around the await, a raising probe rejects Promise.all
ProbeSettles_NoCatch(n, outcome) ==
    /\ pc = "running"
    /\ n \in DOMAIN entries
    /\ race[n] = "pending"
    /\ promise[n] = "pending"
    /\ entries[n].probe \in {EnvProbe, outcome}
    /\ promise' = [promise EXCEPT ![n] = outcome]
    /\ race' = [race EXCEPT ![n] = "probe"]
    /\ IF outcome \in {"throwError", "throwOther"}
       THEN /\ pc' = "rejected"
            /\ UNCHANGED <<results, overallStatus>>
       ELSE /\ pc' = pc
            /\ results' = MapSet(results, n,
                                 ResultOf(outcome, now - startTime[n]))
            /\ overallStatus' = StatusAfter(outcome, overallStatus)
    /\ UNCHANGED <<appVars, registryVars, now, invocations, caller, category,
                   entries, startTime, timer, ret, response, logVars, metricsVars, simVars>>

\* health/index.ts:47-81: checkPromise settles first and wins the race; the
\* continuation of the await records the entry.
ProbeSettles(n, outcome) ==
    /\ pc = "running"
    /\ n \in DOMAIN entries
    /\ race[n] = "pending"
    /\ promise[n] = "pending"
    /\ entries[n].probe \in {EnvProbe, outcome}
    /\ promise' = [promise EXCEPT ![n] = outcome]
    /\ race' = [race EXCEPT ![n] = "probe"]
    /\ results' = MapSet(results, n, ResultOf(outcome, now - startTime[n]))
    /\ overallStatus' = StatusAfter(outcome, overallStatus)
    /\ UNCHANGED <<appVars, registryVars, now, invocations, pc, caller, category,
                   entries, startTime, timer, ret, response, logVars, metricsVars, simVars>>

\* health/index.ts:43-45, 67-81: the timer rejects timeoutPromise first; the
\* catch block records the entry.
TimerFires(n) ==
    /\ pc = "running"
    /\ n \in DOMAIN entries
    /\ race[n] = "pending"
    /\ timer[n] = "armed"
    /\ now >= Deadline(n)
    /\ timer' = [timer EXCEPT ![n] = "fired"]
    /\ race' = [race EXCEPT ![n] = "timer"]
    /\ results' = MapSet(results, n, ResultOf("timeout", now - startTime[n]))
    /\ overallStatus' = StatusAfter("timeout", overallStatus)
    /\ UNCHANGED <<appVars, registryVars, now, invocations, pc, caller, category,
                   entries, startTime, promise, ret, response, logVars, metricsVars, simVars>>

\* mutant: the late probe's continuation still writes its entry
LateSettle_Records(n, outcome) ==
    /\ n \in DOMAIN entries
    /\ race[n] = "timer"
    /\ promise[n] = "pending"
    /\ entries[n].probe \in {EnvProbe, outcome}
    /\ promise' = [promise EXCEPT ![n] = outcome]
    /\ results' = [results EXCEPT
                      ![n] = ResultOf(outcome, now - startTime[n])]
    /\ overallStatus' = StatusAfter(outcome, overallStatus)
    /\ UNCHANGED <<appVars, registryVars, now, invocations, pc, caller, category,
                   entries, startTime, timer, race, ret, response, logVars, metricsVars, simVars>>

\* A probe that lost the race is not cancelled (no code cancels it); when its
\* promise settles later Promise.race (health/index.ts:48) has already
\* settled and no continuation runs.
LateSettle(n, outcome) ==
    /\ n \in DOMAIN entries
    /\ race[n] = "timer"
    /\ promise[n] = "pending"
    /\ entries[n].probe \in {EnvProbe, outcome}
    /\ promise' = [promise EXCEPT ![n] = outcome]
    /\ UNCHANGED <<appVars, registryVars, now, invocations, pc, caller, category,
                   entries, startTime, timer, race, results, overallStatus,
                   ret, response, logVars, metricsVars, simVars>>

\* The timer of a probe that won the race is never cleared
\* (health/index.ts:43-45); its reject of the settled race changes nothing.
LateTimer(n) ==
    /\ n \in DOMAIN entries
    /\ race[n] = "probe"
    /\ timer[n] = "armed"
    /\ now >= Deadline(n)
    /\ timer' = [timer EXCEPT ![n] = "fired"]
    /\ UNCHANGED <<appVars, registryVars, now, invocations, pc, caller, category,
                   entries, startTime, promise, race, results, overallStatus,
                   ret, response, logVars, metricsVars, simVars>>

\* health/index.ts:84-90: Promise.all resolves once every callback finished
Aggregate ==
    /\ pc = "running"
    /\ Unrecorded = {}
    /\ pc' = "returned"
    /\ ret' = [status |-> overallStatus, checks |-> results]
    /\ UNCHANGED <<appVars, registryVars, now, invocations, caller, category, entries,
                   startTime, promise, timer, race, results, overallStatus,
                   response, logVars, metricsVars, simVars>>

\* src/api/healthz.ts:13-19, part_000:228, health/index.ts:108-110,132-134
\* answer by status; part_000:18,30 answers with res.json(result) alone.
HttpStatus(who, status) ==
    IF who = "dbServer" THEN 200
    ELSE IF status = "healthy" THEN 200 ELSE 503

\* the handler's try block after the await
Respond ==
    /\ pc = "returned"
    /\ caller # "direct"
    /\ pc' = "responded"
    /\ response' = [code |-> HttpStatus(caller, ret.status),
                    body |-> "HealthStatus"]
    /\ UNCHANGED <<appVars, registryVars, now, invocations, caller, category, entries,
                   startTime, promise, timer, race, results, overallStatus,
                   ret, logVars, metricsVars, simVars>>

\* src/api/healthz.ts:25-35, part_000:234-238, health/index.ts:119-123 send
\* {status, timestamp, error: 'Internal server error'}; part_000:21,33 send
\* {error: 'Health check failed' / 'Readiness check failed'}.
ErrorBody(who) ==
    IF who = "dbServer" THEN "check failed" ELSE "Internal server error"

\* the handler's catch block
RespondError ==
    /\ pc = "rejected"
    /\ caller # "direct"
    /\ pc' = "responded"
    /\ response' = [code |-> 500, body |-> ErrorBody(caller)]
    /\ UNCHANGED <<appVars, registryVars, now, invocations, caller, category, entries,
                   startTime, promise, timer, race, results, overallStatus,
                   ret, logVars, metricsVars, simVars>>

\* POST /simulate-unhealthy: part_000:288-306 registers, in the category the
\* body names, a 'test-failure' probe that resolves false; part_000:164-168
\* answers without touching the registry.
SimulateUnhealthy(server, type) ==
    /\ posts < MaxPosts
    /\ posts' = posts + 1
    /\ simulation' = IF type \in Categories
                     THEN [simulation EXCEPT ![server][type] = "unhealthy"]
                     ELSE simulation
    /\ IF server = "healthServer" /\ type = "liveness"
       THEN /\ livenessChecks' =
                  Registered(livenessChecks, TestFailure, "false", Omitted)
            /\ registered' =
                  [registered EXCEPT !["liveness"][TestFailure] = @ + 1]
            /\ UNCHANGED readinessChecks
       ELSE IF server = "healthServer" /\ type = "readiness"
       THEN /\ readinessChecks' =
                  Registered(readinessChecks, TestFailure, "false", Omitted)
            /\ registered' =
                  [registered EXCEPT !["readiness"][TestFailure] = @ + 1]
            /\ UNCHANGED livenessChecks
       ELSE UNCHANGED <<livenessChecks, readinessChecks, registered>>
    /\ UNCHANGED <<appVars, registrations, now, runVars, simulationAtStart, logVars,
                   metricsVars>>

\* POST /restore-healthy: part_000:309-323 registers, in both categories, a
\* 'test-failure' probe that resolves true; part_000:170-174 answers without
\* touching the registry.
RestoreHealthy(server) ==
    /\ posts < MaxPosts
    /\ posts' = posts + 1
    /\ simulation' =
          [simulation EXCEPT ![server] = [c \in Categories |-> "restored"]]
    /\ IF server = "healthServer"
       THEN /\ livenessChecks' =
                  Registered(livenessChecks, TestFailure, "true", Omitted)
            /\ readinessChecks' =
                  Registered(readinessChecks, TestFailure, "true", Omitted)
            /\ registered' =
                  [c \in Categories |->
                      [registered[c] EXCEPT ![TestFailure] = @ + 1]]
       ELSE UNCHANGED <<livenessChecks, readinessChecks, registered>>
    /\ UNCHANGED <<appVars, registrations, now, runVars, simulationAtStart, logVars,
                   metricsVars>>

\* the earliest time at which a timer that still matters is due
PendingDeadlines ==
    {Deadline(n) : n \in {m \in DOMAIN entries : timer[m] = "armed"}}

\* a continuation of an await (health/index.ts:84, the handlers' await) is
\* queued as a microtask: it runs before any timer and before the clock is
\* seen to move
ContinuationDue ==
    \/ pc = "running" /\ Unrecorded = {}
    \/ pc = "running" /\ \E n \in Unrecorded : entries[n].probe # EnvProbe
    \/ pc \in {"returned", "rejected"} /\ caller # "direct"

TickTargets == PendingDeadlines \cup {now + TickStep}

\* Date.now() advances while an invocation is in flight (it is read nowhere
\* else), by the ordinary step or up to the next due timer; a due timer's
\* callback runs before the clock is seen to move again.
Tick ==
    /\ pc = "running"
    /\ ~ContinuationDue
    /\ \E t \in TickTargets :
          /\ t > now
          /\ t <= MaxNow
          /\ \A d \in PendingDeadlines : t <= d
          /\ now' = t
    /\ UNCHANGED <<appVars, registryVars, runVars, logVars, metricsVars, simVars>>

\* ------------------------------------------------------------------ Logger
\* a LogContext object, or undefined
Obj(f) == [def |-> TRUE, map |-> f]
UndefinedCtx == [def |-> FALSE, map |-> EmptyMap]
CtxA1 == Obj([k \in {"a"} |-> 1])
CtxA2 == Obj([k \in {"a"} |-> 2])
CtxB1 == Obj([k \in {"b"} |-> 1])
CtxB2 == Obj([k \in {"b"} |-> 2])
\* arguments of withContext, and of info/warn/error/debug
WithContextArgs == {CtxA1, CtxB2, CtxA2}
LogContextArgs == {UndefinedCtx, CtxB1}
\* arguments of setTraceId, and values uuidv4() may return
TraceIdArgs == {"T"}
Uuids == {"uuid-1"}
Levels == {"info", "error", "warn", "debug"}

\* logging/index.ts:21-23; parent and extra remember the withContext call
\* that built the instance (0 when it was built by the constructor alone)
NewLogger(service) ==
    [service |-> service, traceId |-> Undefined, context |-> UndefinedCtx,
     parent |-> 0, extra |-> UndefinedCtx]

\* the object spread { ...x, ...y }; spreading undefined adds no key
Spread(x, y) ==
    Obj([k \in (DOMAIN x.map) \cup (DOMAIN y.map) |->
            IF k \in DOMAIN y.map THEN y.map[k] ELSE x.map[k]])

\* logging/index.ts:25-34 (the timestamp is left out)
FormatLog(self, level, message, context) ==
    [level |-> level, service |-> self.service, message |-> message,
     context |-> context, traceId |-> self.traceId]

NoCall == [logger |-> 0, method |-> "none", context |-> UndefinedCtx]
NoEntry == [level |-> "none", service |-> "none", message |-> "none",
            context |-> UndefinedCtx, traceId |-> Undefined]

LogInit ==
    /\ loggers = <<NewLogger("shadcn-admin")>>
    /\ call = NoCall
    /\ entry = NoEntry

\* logging/index.ts:51-54
Info(i, context) ==
    /\ i \in DOMAIN loggers
    /\ call' = [logger |-> i, method |-> "info", context |-> context]
    /\ entry' = FormatLog(loggers[i], "info", "message", context)
    /\ UNCHANGED <<appVars, loggers, healthVars, metricsVars>>

\* logging/index.ts:56-59
Error(i, context) ==
    /\ i \in DOMAIN loggers
    /\ call' = [logger |-> i, method |-> "error", context |-> context]
    /\ entry' = FormatLog(loggers[i], "error", "message", context)
    /\ UNCHANGED <<appVars, loggers, healthVars, metricsVars>>

\* logging/index.ts:61-64
Warn(i, context) ==
    /\ i \in DOMAIN loggers
    /\ call' = [logger |-> i, method |-> "warn", context |-> context]
    /\ entry' = FormatLog(loggers[i], "warn", "message", context)
    /\ UNCHANGED <<appVars, loggers, healthVars, metricsVars>>

\* logging/index.ts:66-69
Debug(i, context) ==
    /\ i \in DOMAIN loggers
    /\ call' = [logger |-> i, method |-> "debug", context |-> context]
    /\ entry' = FormatLog(loggers[i], "debug", "message", context)
    /\ UNCHANGED <<appVars, loggers, healthVars, metricsVars>>

\* logging/index.ts:71-76
WithContext(i, context) ==
    /\ i \in DOMAIN loggers
    /\ Len(loggers) < MaxLoggers
    /\ loggers' = Append(loggers,
                         [NewLogger(loggers[i].service) EXCEPT
                             !.traceId = loggers[i].traceId,
                             !.context = Spread(loggers[i].context, context),
                             !.parent = i,
                             !.extra = context])
    /\ UNCHANGED <<appVars, call, entry, healthVars, metricsVars>>

\* logging/index.ts:78-80
SetTraceId(i, traceId) ==
    /\ i \in DOMAIN loggers
    /\ loggers' = [loggers EXCEPT ![i].traceId = traceId]
    /\ UNCHANGED <<appVars, call, entry, healthVars, metricsVars>>

\* logging/index.ts:82-85: uuidv4() is random
GenerateTraceId(i) ==
    /\ i \in DOMAIN loggers
    /\ \E u \in Uuids : loggers' = [loggers EXCEPT ![i].traceId = u]
    /\ UNCHANGED <<appVars, call, entry, healthVars, metricsVars>>

\* ----------------------------------------------------------------- Metrics
\* A number held by the registry is carried as a whole number of thousandths
\* (5 is 5 * Milli, 0.12 is 120); HTTP status codes and millisecond
\* arguments are whole numbers.  Arithmetic rounds as IEEE 754 arithmetic
\* does, to the nearest value with SignificandBits significant bits, ties to
\* even.
Num(k) == k * Milli

RECURSIVE Pow2(_)
Pow2(k) == IF k = 0 THEN 1 ELSE 2 * Pow2(k - 1)

RECURSIVE Quantum(_, _)
\* the spacing of the representable values around n >= 0
Quantum(n, q) ==
    IF n < Pow2(SignificandBits) * q THEN q ELSE Quantum(n, 2 * q)

RoundAbs(n) ==
    LET q == Quantum(n, 1)
        lo == (n \div q) * q
    IN  IF 2 * (n - lo) < q THEN lo
        ELSE IF 2 * (n - lo) > q THEN lo + q
        ELSE IF (lo \div q) % 2 = 0 THEN lo ELSE lo + q

Round(n) == IF n < 0 THEN 0 - RoundAbs(0 - n) ELSE RoundAbs(n)

\* the `+` of part_002:42 and :102
Add(a, b) == Round(a + b)

\* `responseTime / 1000` (part_002:72)
Seconds(responseTime) == Round((responseTime * Milli) \div 1000)

\* a MetricLabels argument: an object, its entries in insertion order, or
\* not passed
NoLabels == [given |-> FALSE, entries |-> <<>>]
Labels(e) == [given |-> TRUE, entries |-> e]
EmptyLabels == Labels(<<>>)
LabelsA == Labels(<< <<"a", "1">> >>)
LabelsBA == Labels(<< <<"b", "2">>, <<"a", "1">> >>)
LabelsAB == Labels(<< <<"a", "1">>, <<"b", "2">> >>)
LabelArgs == {NoLabels, EmptyLabels, LabelsA, LabelsBA, LabelsAB}

\* a numeric argument, or not passed
Value(v) == [given |-> TRUE, value |-> v]
NoValue == [given |-> FALSE, value |-> 0]

\* the arguments the callers pass
CounterNames == {"c"}
CounterArgs ==
    {[value |-> v, labels |-> NoLabels] :
        v \in {NoValue, Value(Num(5)), Value(Num(3)), Value(Num(0 - 1))}}
    \cup {[value |-> Value(Num(5)), labels |-> l] :
             l \in {EmptyLabels, LabelsBA}}
    \cup {[value |-> Value(Num(3)), labels |-> LabelsAB]}
GaugeNames == {"g"}
GaugeArgs ==
    {[value |-> Num(v), labels |-> NoLabels] : v \in {5, 3}}
HistogramNames == {"h"}
HistogramArgs ==
    {[value |-> v, labels |-> NoLabels] :
        v \in {2, Pow2(SignificandBits) - 1}}
Methods == {"GET"}
Paths == {"/x"}
StatusCodes == {399, 400}
ResponseTimes == {120}

\* the label keys in use, in the order localeCompare puts them
KeyOrder == <<"a", "b", "method", "path", "status">>

localeCompare(a, b) ==
    (CHOOSE i \in DOMAIN KeyOrder : KeyOrder[i] = a)
    - (CHOOSE i \in DOMAIN KeyOrder : KeyOrder[i] = b)

RECURSIVE InsertEntry(_, _)
InsertEntry(e, s) ==
    IF s = <<>> THEN <<e>>
    ELSE IF localeCompare(e[1], Head(s)[1]) < 0 THEN <<e>> \o s
    ELSE <<Head(s)>> \o InsertEntry(e, Tail(s))

RECURSIVE SortEntries(_)
\* .sort(([a], [b]) => a.localeCompare(b)) (part_002:28); the sort is stable
SortEntries(s) ==
    IF s = <<>> THEN <<>>
    ELSE InsertEntry(s[Len(s)], SortEntries(SubSeq(s, 1, Len(s) - 1)))

RECURSIVE JoinEntries(_)
\* .map(([k, v]) => `${k}="${v}"`).join(',') (part_002:29-30); a string is
\* carried as the sequence of its pieces
JoinEntries(s) ==
    IF s = <<>> THEN <<>>
    ELSE IF Len(s) = 1 THEN <<s[1][1], "=\"", s[1][2], "\"">>
    ELSE <<s[1][1], "=\"", s[1][2], "\"", ",">> \o JoinEntries(Tail(s))

\* mutant: the entries are joined in insertion order
getLabelKey_Unsorted(labels) ==
    IF ~labels.given THEN <<"default">> ELSE JoinEntries(labels.entries)

\* part_002:25-31
getLabelKey(labels) ==
    IF ~labels.given THEN <<"default">>
    ELSE JoinEntries(SortEntries(labels.entries))

\* `labelKey !== 'default' ? `{${labelKey}}` : ''` (part_002:58, 90)
LabelSegment(labelKey) ==
    IF labelKey # <<"default">> THEN <<"{">> \o labelKey \o <<"}">> ELSE <<>>

\* a Map, its entries in insertion order
MapHas(m, k) == \E i \in DOMAIN m : m[i].key = k
MapGet(m, k) == m[CHOOSE i \in DOMAIN m : m[i].key = k].val
OrderedSet(m, k, v) ==
    IF MapHas(m, k)
    THEN [i \in DOMAIN m |-> IF m[i].key = k THEN [key |-> k, val |-> v]
                             ELSE m[i]]
    ELSE Append(m, [key |-> k, val |-> v])

\* `counterMap.get(labelKey) || 0` (part_002:41)
GetOrZero(m, k) == IF MapHas(m, k) /\ MapGet(m, k) # 0 THEN MapGet(m, k) ELSE 0

\* `value: number = 1` (part_002:33)
DefaultValue(v) == IF v.given THEN v.value ELSE Num(1)

\* mutant: the series is overwritten with the argument
CountersAfter_Overwrites(cs, name, value, labels) ==
    LET withName == IF MapHas(cs, name) THEN cs ELSE OrderedSet(cs, name, <<>>)
    IN  OrderedSet(withName, name,
                   OrderedSet(MapGet(withName, name), getLabelKey(labels),
                              value))

\* part_002:34-42: the counters after counter(name, value, labels)
CountersAfter(cs, name, value, labels) ==
    LET labelKey == getLabelKey(labels)
        withName == IF MapHas(cs, name) THEN cs ELSE OrderedSet(cs, name, <<>>)
        counterMap == MapGet(withName, name)
        currentValue == GetOrZero(counterMap, labelKey)
    IN  OrderedSet(withName, name,
                   OrderedSet(counterMap, labelKey, Add(currentValue, value)))

\* part_002:46-53: the gauges after gauge(name, value, labels)
GaugesAfter(gs, name, value, labels) ==
    LET labelKey == getLabelKey(labels)
        withName == IF MapHas(gs, name) THEN gs ELSE OrderedSet(gs, name, <<>>)
        gaugeMap == MapGet(withName, name)
    IN  OrderedSet(withName, name, OrderedSet(gaugeMap, labelKey, value))

\* part_002:57-64: the histograms after histogram(name, value, labels)
HistogramsAfter(hs, name, value, labels) ==
    LET labelKey == getLabelKey(labels)
        metricKey == <<name>> \o LabelSegment(labelKey)
        withKey == IF MapHas(hs, metricKey) THEN hs
                   ELSE OrderedSet(hs, metricKey, <<>>)
    IN  OrderedSet(withKey, metricKey, Append(MapGet(withKey, metricKey), value))

NoMetricCall ==
    [op |-> "none", name |-> "", value |-> 0, labels |-> NoLabels,
     method |-> "", path |-> "", statusCode |-> 0, responseTime |-> 0]

MetricsInit ==
    /\ counters = <<>>
    /\ gauges = <<>>
    /\ histograms = <<>>
    /\ text = <<>>
    /\ metricCall = NoMetricCall
    /\ metricCalls = 0

\* part_002:33-43
counter(name, value, labels) ==
    /\ metricCalls < MaxMetricCalls
    /\ counters' = CountersAfter(counters, name, DefaultValue(value), labels)
    /\ metricCall' = [NoMetricCall EXCEPT !.op = "counter", !.name = name,
                                          !.value = DefaultValue(value),
                                          !.labels = labels]
    /\ metricCalls' = metricCalls + 1
    /\ UNCHANGED <<appVars, gauges, histograms, text, healthVars, logVars>>

\* part_002:45-54
gauge(name, value, labels) ==
    /\ metricCalls < MaxMetricCalls
    /\ gauges' = GaugesAfter(gauges, name, value, labels)
    /\ metricCall' = [NoMetricCall EXCEPT !.op = "gauge", !.name = name,
                                          !.value = value, !.labels = labels]
    /\ metricCalls' = metricCalls + 1
    /\ UNCHANGED <<appVars, counters, histograms, text, healthVars, logVars>>

\* part_002:56-65
histogram(name, value, labels) ==
    /\ metricCalls < MaxMetricCalls
    /\ histograms' = HistogramsAfter(histograms, name, value, labels)
    /\ metricCall' = [NoMetricCall EXCEPT !.op = "histogram", !.name = name,
                                          !.value = value, !.labels = labels]
    /\ metricCalls' = metricCalls + 1
    /\ UNCHANGED <<appVars, counters, gauges, text, healthVars, logVars>>

\* the labels observeHttp builds (part_002:69, 72, 76)
StatusLabels(method, path, statusCode) ==
    Labels(<< <<"method", method>>, <<"path", path>>,
              <<"status", ToString(statusCode)>> >>)
RouteLabels(method, path) ==
    Labels(<< <<"method", method>>, <<"path", path>> >>)

\* mutant: a status of 400 is not an error
IsErrorStatus_Above400(statusCode) == statusCode > 400

\* `statusCode >= 400` (part_002:75)
IsErrorStatus(statusCode) == statusCode >= 400

\* mutant: the request is counted, the observation and the error are not
observeHttp_Torn(method, path, statusCode, responseTime) ==
    /\ metricCalls < MaxMetricCalls
    /\ counters' = CountersAfter(counters, "http_requests_total", Num(1),
                                 StatusLabels(method, path, statusCode))
    /\ metricCall' = [NoMetricCall EXCEPT !.op = "observeHttp",
                                          !.method = method, !.path = path,
                                          !.statusCode = statusCode,
                                          !.responseTime = responseTime]
    /\ metricCalls' = metricCalls + 1
    /\ UNCHANGED <<appVars, gauges, histograms, text, healthVars, logVars>>

\* part_002:67-78: what one call writes
ObservedHttp(method, path, statusCode, responseTime) ==
    /\ counters' =
          LET requests ==
                 CountersAfter(counters, "http_requests_total", Num(1),
                               StatusLabels(method, path, statusCode))
          IN  IF IsErrorStatus(statusCode)
              THEN CountersAfter(requests, "http_errors_total", Num(1),
                                 StatusLabels(method, path, statusCode))
              ELSE requests
    /\ histograms' =
          HistogramsAfter(histograms, "http_request_duration_seconds",
                          Seconds(responseTime), RouteLabels(method, path))
    /\ metricCall' = [NoMetricCall EXCEPT !.op = "observeHttp",
                                          !.method = method, !.path = path,
                                          !.statusCode = statusCode,
                                          !.responseTime = responseTime]
    /\ metricCalls' = metricCalls + 1

\* part_002:67-78
observeHttp(method, path, statusCode, responseTime) ==
    /\ metricCalls < MaxMetricCalls
    /\ ObservedHttp(method, path, statusCode, responseTime)
    /\ UNCHANGED <<appVars, gauges, text, healthVars, logVars>>

\* a line of the exposition text: its pieces and, for a sample, its value
Comment(t) == [text |-> <<t>>, value |-> <<>>]
Blank == [text |-> <<>>, value |-> <<>>]
Sample(t, v) == [text |-> t, value |-> <<v>>]

\* part_002:89-92
SeriesLines(name, labelMap) ==
    [i \in 1..Len(labelMap) |->
        Sample(<<name>> \o LabelSegment(labelMap[i].key), labelMap[i].val)]

RECURSIVE CounterLines(_)
\* part_002:88-93
CounterLines(cs) ==
    IF cs = <<>> THEN <<>>
    ELSE SeriesLines(Head(cs).key, Head(cs).val) \o CounterLines(Tail(cs))

RECURSIVE InsertNumber(_, _)
InsertNumber(x, s) ==
    IF s = <<>> THEN <<x>>
    ELSE IF x - Head(s) < 0 THEN <<x>> \o s
    ELSE <<Head(s)>> \o InsertNumber(x, Tail(s))

RECURSIVE SortNumbers(_)
\* values.sort((a, b) => a - b) (part_002:104)
SortNumbers(s) ==
    IF s = <<>> THEN <<>>
    ELSE InsertNumber(s[Len(s)], SortNumbers(SubSeq(s, 1, Len(s) - 1)))

RECURSIVE Reduce(_, _)
\* values.reduce((a, b) => a + b, 0) (part_002:102)
Reduce(acc, s) == IF s = <<>> THEN acc ELSE Reduce(Add(acc, Head(s)), Tail(s))

\* values.filter(v => v <= bound).length (part_002:111-114)
CountAtMost(values, bound) ==
    Cardinality({i \in DOMAIN values : values[i] <= bound})

\* mutant: every percentile is the largest observation
Percentile_Last(sorted, p) == sorted[Len(sorted)]

\* sorted[Math.floor(sorted.length * p / 100)] (part_002:105-107)
Percentile(sorted, p) == sorted[(Len(sorted) * p) \div 100 + 1]

\* part_002:101-119; the array has been summed before it is sorted
HistogramLines(name, values) ==
    IF Len(values) > 0
    THEN LET sum == Reduce(0, values)
             count == Len(values)
             sorted == SortNumbers(values)
         IN  << Sample(name \o <<"_sum">>, sum),
                Sample(name \o <<"_count">>, Num(count)),
                Sample(name \o <<"_bucket{le=\"0.1\"}">>,
                       Num(CountAtMost(sorted, Milli \div 10))),
                Sample(name \o <<"_bucket{le=\"0.5\"}">>,
                       Num(CountAtMost(sorted, Milli \div 2))),
                Sample(name \o <<"_bucket{le=\"1\"}">>,
                       Num(CountAtMost(sorted, Num(1)))),
                Sample(name \o <<"_bucket{le=\"5\"}">>,
                       Num(CountAtMost(sorted, Num(5)))),
                Sample(name \o <<"_bucket{le=\"+Inf\"}">>, Num(count)),
                Sample(name \o <<"_p50">>, Percentile(sorted, 50)),
                Sample(name \o <<"_p95">>, Percentile(sorted, 95)),
                Sample(name \o <<"_p99">>, Percentile(sorted, 99)) >>
    ELSE <<>>

RECURSIVE AllHistogramLines(_)
\* part_002:100-120
AllHistogramLines(hs) ==
    IF hs = <<>> THEN <<>>
    ELSE HistogramLines(Head(hs).key, Head(hs).val)
         \o AllHistogramLines(Tail(hs))

\* part_002:81-126: the lines getMetrics joins with '\n'
Render(cs, hs) ==
    << Comment("# HELP http_requests_total Total number of HTTP requests"),
       Comment("# TYPE http_requests_total counter") >>
    \o CounterLines(cs)
    \o << Blank,
          Comment("# HELP http_request_duration_seconds HTTP request duration in seconds"),
          Comment("# TYPE http_request_duration_seconds histogram") >>
    \o AllHistogramLines(hs)
    \o << Blank,
          Comment("# HELP http_errors_total Total number of HTTP errors"),
          Comment("# TYPE http_errors_total counter") >>

\* part_002:80-127; `values.sort` (104) sorts the stored array in place
getMetrics ==
    /\ text' = Render(counters, histograms)
    /\ histograms' = [i \in DOMAIN histograms |->
                         [key |-> histograms[i].key,
                          val |-> SortNumbers(histograms[i].val)]]
    /\ metricCall' = [NoMetricCall EXCEPT !.op = "getMetrics"]
    /\ UNCHANGED <<appVars, counters, gauges, metricCalls, healthVars, logVars>>

\* mutant: the histogram buffers survive
reset_KeepsHistograms ==
    /\ metricCalls < MaxMetricCalls
    /\ counters' = <<>>
    /\ gauges' = <<>>
    /\ metricCall' = [NoMetricCall EXCEPT !.op = "reset"]
    /\ metricCalls' = metricCalls + 1
    /\ UNCHANGED <<appVars, histograms, text, healthVars, logVars>>

\* part_002:129-136
reset ==
    /\ metricCalls < MaxMetricCalls
    /\ counters' = <<>>
    /\ gauges' = <<>>
    /\ histograms' = <<>>
    /\ metricCall' = [NoMetricCall EXCEPT !.op = "reset"]
    /\ metricCalls' = metricCalls + 1
    /\ UNCHANGED <<appVars, text, healthVars, logVars>>

AppInit ==
    /\ flights = <<>>
    /\ apiRequests = <<>>
    /\ userProfiles = <<>>
    /\ profileCalls = <<>>

Init == HealthInit /\ LogInit /\ MetricsInit /\ AppInit

Handlers == Callers \ {"direct"}

\* the health registry, direct callers of checkLiveness/checkReadiness and
\* the clock
Next ==
    \/ \E n \in Names, t \in TimeoutArgs : RegisterLiveness(n, EnvProbe, t)
    \/ \E n \in Names, t \in TimeoutArgs : RegisterReadiness(n, EnvProbe, t)
    \/ \E c \in Categories : StartChecks("direct", c)
    \/ \E c \in Categories : StartChecksLogFails("direct", c)
    \/ \E n \in Names, o \in Outcomes : ProbeSettles(n, o)
    \/ \E n \in Names : TimerFires(n)
    \/ \E n \in Names, o \in Outcomes : LateSettle(n, o)
    \/ \E n \in Names : LateTimer(n)
    \/ Aggregate
    \/ Tick

Spec == Init /\ [][Next]_vars

\* the health registry behind the HTTP handlers; the servers register their
\* probes without a timeout argument (part_000:291-320)
NextHttp ==
    \/ \E n \in Names : RegisterLiveness(n, EnvProbe, Omitted)
    \/ \E n \in Names : RegisterReadiness(n, EnvProbe, Omitted)
    \/ \E who \in Handlers, c \in Categories : StartChecks(who, c)
    \/ \E who \in Handlers, c \in Categories : StartChecksLogFails(who, c)
    \/ \E n \in Names, o \in Outcomes : ProbeSettles(n, o)
    \/ \E n \in Names : TimerFires(n)
    \/ \E n \in Names, o \in Outcomes : LateSettle(n, o)
    \/ \E n \in Names : LateTimer(n)
    \/ Aggregate
    \/ Respond
    \/ RespondError
    \/ Tick

SpecHttp == Init /\ [][NextHttp]_vars

\* the two servers with their simulation endpoints; 'app' is a probe of the
\* application
NextSim ==
    \/ \E s \in Servers, t \in TypeArgs : SimulateUnhealthy(s, t)
    \/ \E s \in Servers : RestoreHealthy(s)
    \/ RegisterLiveness("app", EnvProbe, Omitted)
    \/ \E s \in Servers, c \in Categories : StartChecks(s, c)
    \/ \E n \in AllNames, o \in Outcomes : ProbeSettles(n, o)
    \/ \E n \in AllNames : TimerFires(n)
    \/ \E n \in AllNames, o \in Outcomes : LateSettle(n, o)
    \/ Aggregate
    \/ Respond
    \/ Tick

SpecSim == Init /\ [][NextSim]_vars

\* the loggers driven by their callers
NextLog ==
    \/ \E i \in 1..MaxLoggers, c \in LogContextArgs : Info(i, c)
    \/ \E i \in 1..MaxLoggers, c \in LogContextArgs : Error(i, c)
    \/ \E i \in 1..MaxLoggers, c \in LogContextArgs : Warn(i, c)
    \/ \E i \in 1..MaxLoggers, c \in LogContextArgs : Debug(i, c)
    \/ \E i \in 1..MaxLoggers, c \in WithContextArgs : WithContext(i, c)
    \/ \E i \in 1..MaxLoggers, t \in TraceIdArgs : SetTraceId(i, t)
    \/ \E i \in 1..MaxLoggers : GenerateTraceId(i)

SpecLog == Init /\ [][NextLog]_vars

\* the metrics registry driven by its callers
NextMetrics ==
    \/ \E n \in CounterNames, a \in CounterArgs : counter(n, a.value, a.labels)
    \/ \E n \in GaugeNames, a \in GaugeArgs : gauge(n, a.value, a.labels)
    \/ \E n \in HistogramNames, a \in HistogramArgs :
          histogram(n, a.value, a.labels)
    \/ \E m \in Methods, p \in Paths, s \in StatusCodes, t \in ResponseTimes :
          observeHttp(m, p, s, t)
    \/ getMetrics
    \/ reset

SpecMetrics == Init /\ [][NextMetrics]_vars

\* ------------------------------------------------ overlapping invocations
\* Each call of checkLiveness/checkReadiness runs its own runChecks
\* (health/index.ts:35-91) with its own `results`, `overallStatus` and array
\* of entries; several of them can be between their start and their return.

\* mutant: the callback looks the check up in the registry when it resumes
HealthCheckOf_Live(f, n) ==
    IF n \in DOMAIN ChecksOf(f.category)
    THEN ChecksOf(f.category)[n] ELSE f.entries[n]

\* `healthCheck` of the map callback (health/index.ts:39): the object that
\* was in the map when Array.from(checks.entries()) ran
HealthCheckOf(f, n) == f.entries[n]

FlightDeadline(f, n) ==
    f.startTime + EffectiveTimeout(HealthCheckOf(f, n).timeout)

\* the callbacks of the invocation that have not finished
FlightUnrecorded(f) == {n \in DOMAIN f.entries : f.race[n] = "pending"}

\* health/index.ts:93-101 and 35-48: the callbacks run synchronously up to
\* their await
FlightStarts(c) ==
    /\ Len(flights) < MaxFlights
    /\ flights' =
          Append(flights,
                 [category |-> c, entries |-> ChecksOf(c), startTime |-> now,
                  promise |-> [n \in DOMAIN ChecksOf(c) |-> "pending"],
                  race |-> [n \in DOMAIN ChecksOf(c) |-> "pending"],
                  results |-> EmptyMap, overallStatus |-> "healthy",
                  pc |-> "running", ret |-> NoRet])
    /\ UNCHANGED <<healthVars, logVars, metricsVars, apiRequests,
                   userProfiles, profileCalls>>

\* health/index.ts:47-81 for one callback of one invocation
FlightProbeSettles(i, n, outcome) ==
    /\ i \in DOMAIN flights
    /\ flights[i].pc = "running"
    /\ n \in FlightUnrecorded(flights[i])
    /\ HealthCheckOf(flights[i], n).probe \in {EnvProbe, outcome}
    /\ flights' =
          [flights EXCEPT
              ![i].promise[n] = outcome,
              ![i].race[n] = "probe",
              ![i].results =
                  MapSet(@, n, ResultOf(outcome, now - flights[i].startTime)),
              ![i].overallStatus = StatusAfter(outcome, @)]
    /\ UNCHANGED <<healthVars, logVars, metricsVars, apiRequests,
                   userProfiles, profileCalls>>

\* health/index.ts:43-45, 67-81 for one callback of one invocation
FlightTimerFires(i, n) ==
    /\ i \in DOMAIN flights
    /\ flights[i].pc = "running"
    /\ n \in FlightUnrecorded(flights[i])
    /\ now >= FlightDeadline(flights[i], n)
    /\ flights' =
          [flights EXCEPT
              ![i].race[n] = "timer",
              ![i].results =
                  MapSet(@, n,
                         ResultOf("timeout", now - flights[i].startTime)),
              ![i].overallStatus = StatusAfter("timeout", @)]
    /\ UNCHANGED <<healthVars, logVars, metricsVars, apiRequests,
                   userProfiles, profileCalls>>

\* health/index.ts:84-90 for one invocation
FlightReturns(i) ==
    /\ i \in DOMAIN flights
    /\ flights[i].pc = "running"
    /\ FlightUnrecorded(flights[i]) = {}
    /\ flights' =
          [flights EXCEPT
              ![i].pc = "returned",
              ![i].ret = [status |-> flights[i].overallStatus,
                          checks |-> flights[i].results]]
    /\ UNCHANGED <<healthVars, logVars, metricsVars, apiRequests,
                   userProfiles, profileCalls>>

Running == {i \in DOMAIN flights : flights[i].pc = "running"}

FlightDeadlines ==
    UNION {{FlightDeadline(flights[i], n) : n \in FlightUnrecorded(flights[i])}
           : i \in Running}

\* Date.now() as these callers see it: it has moved on to the next due timer
\* by the time a callback runs that was neither a microtask (a settled
\* probe's continuation, the continuation of Promise.all) nor due earlier.
FlightTick ==
    /\ Running # {}
    /\ \A i \in Running :
          /\ FlightUnrecorded(flights[i]) # {}
          /\ \A n \in FlightUnrecorded(flights[i]) :
                HealthCheckOf(flights[i], n).probe = EnvProbe
    /\ \E t \in FlightDeadlines :
          /\ t > now
          /\ t <= MaxNow
          /\ \A d \in FlightDeadlines : t <= d
          /\ now' = t
    /\ UNCHANGED <<registryVars, runVars, simVars, logVars, metricsVars,
                   appVars>>

\* callers that register and re-register the 'app' probes and start
\* invocations without awaiting the ones already started
NextOverlap ==
    \/ \E ch \in {EnvProbe, "false"} : RegisterLiveness("app", ch, Omitted)
    \/ RegisterReadiness("app", EnvProbe, Omitted)
    \/ \E c \in Categories : FlightStarts(c)
    \/ \E i \in 1..MaxFlights, n \in Names, o \in {"true", "false"} :
          FlightProbeSettles(i, n, o)
    \/ \E i \in 1..MaxFlights, n \in Names : FlightTimerFires(i, n)
    \/ \E i \in 1..MaxFlights : FlightReturns(i)
    \/ FlightTick

SpecOverlap == Init /\ [][NextOverlap]_vars

\* -------------------------------------------------------------- API client
\* The axios interceptors of ApiClient (lib/api/client.ts:28-120). They log
\* through `logger`, the instance the module shares with every other caller
\* (loggers[1]), and record through the shared `metrics`.

\* uuidv4() for the k-th request: a value no other request gets
Uuid(k) == "uuid-" \o ToString(k)

\* what can come back for a request that axios rejects: a response with a
\* status outside 2xx, or no response at all
Failures == {[response |-> TRUE, status |-> 500],
             [response |-> TRUE, status |-> 404],
             [response |-> FALSE, status |-> 0]}

\* `errorResponse?.status || 0` (client.ts:102)
StatusOrZero(failure) == IF failure.response THEN failure.status ELSE 0

\* what is remembered of a record handed to output(): LogEntry.message and
\* LogEntry.traceId
Emitted(e) == [message |-> e.message, traceId |-> e.traceId]

\* client.ts:31-51: the request interceptor
RequestStarts(method, url) ==
    /\ Len(apiRequests) < MaxRequests
    /\ LET traceId == Uuid(Len(apiRequests) + 1)
           generated == [loggers EXCEPT ![1].traceId = traceId]
           context == Obj([k \in {"method", "url", "traceId", "service"} |->
                              CASE k = "method" -> method
                                [] k = "url" -> url
                                [] k = "traceId" -> traceId
                                [] k = "service" -> "shadcn-admin-api"])
           started == FormatLog(generated[1], "info", "API request started",
                                context)
       IN  /\ loggers' = generated
           /\ call' = [logger |-> 1, method |-> "info", context |-> context]
           /\ entry' = started
           /\ apiRequests' =
                 Append(apiRequests,
                        [method |-> method, url |-> url, header |-> traceId,
                         traceId |-> traceId, pc |-> "sent",
                         status |-> Undefined,
                         records |-> <<Emitted(started)>>])
    /\ UNCHANGED <<healthVars, metricsVars, flights, userProfiles,
                   profileCalls>>

\* client.ts:64-88: the response interceptor
ResponseArrives(i, status, responseTime) ==
    /\ i \in DOMAIN apiRequests
    /\ apiRequests[i].pc = "sent"
    /\ ObservedHttp(apiRequests[i].method, apiRequests[i].url, status,
                    responseTime)
    /\ LET context ==
              Obj([k \in {"method", "url", "status", "responseTime",
                          "traceId", "service"} |->
                      CASE k = "method" -> apiRequests[i].method
                        [] k = "url" -> apiRequests[i].url
                        [] k = "status" -> ToString(status)
                        [] k = "responseTime" -> ToString(responseTime)
                        [] k = "traceId" -> apiRequests[i].traceId
                        [] k = "service" -> "shadcn-admin-api"])
           completed == FormatLog(loggers[1], "info", "API request completed",
                                  context)
       IN  /\ call' = [logger |-> 1, method |-> "info", context |-> context]
           /\ entry' = completed
           /\ apiRequests' =
                 [apiRequests EXCEPT
                     ![i].pc = "completed",
                     ![i].status = ToString(status),
                     ![i].records = Append(@, Emitted(completed))]
    /\ UNCHANGED <<healthVars, loggers, gauges, text, flights, userProfiles,
                   profileCalls>>

\* client.ts:89-118: the response error interceptor, for an error that
\* carries the request's config
ResponseFails(i, failure, responseTime) ==
    /\ i \in DOMAIN apiRequests
    /\ apiRequests[i].pc = "sent"
    /\ ObservedHttp(apiRequests[i].method, apiRequests[i].url,
                    StatusOrZero(failure), responseTime)
    /\ LET context ==
              Obj([k \in {"method", "url", "status", "responseTime", "error",
                          "traceId", "service"} |->
                      CASE k = "method" -> apiRequests[i].method
                        [] k = "url" -> apiRequests[i].url
                        [] k = "status" -> IF failure.response
                                         THEN ToString(failure.status)
                                         ELSE Undefined
                        [] k = "responseTime" -> ToString(responseTime)
                        [] k = "error" -> "message"
                        [] k = "traceId" -> apiRequests[i].traceId
                        [] k = "service" -> "shadcn-admin-api"])
           failed == FormatLog(loggers[1], "error", "API request failed",
                               context)
       IN  /\ call' = [logger |-> 1, method |-> "error", context |-> context]
           /\ entry' = failed
           /\ apiRequests' =
                 [apiRequests EXCEPT
                     ![i].pc = "failed",
                     ![i].status = context.map["status"],
                     ![i].records = Append(@, Emitted(failed))]
    /\ UNCHANGED <<healthVars, loggers, gauges, text, flights, userProfiles,
                   profileCalls>>

\* the requests of a page, sent without awaiting one another
NextClient ==
    \/ \E m \in Methods, u \in {"/users", "/users/1"} : RequestStarts(m, u)
    \/ \E i \in 1..MaxRequests, s \in {200}, t \in ResponseTimes :
          ResponseArrives(i, s, t)
    \/ \E i \in 1..MaxRequests, f \in Failures, t \in ResponseTimes :
          ResponseFails(i, f, t)

SpecClient == Init /\ [][NextClient]_vars

\* ----------------------------------------------------------- user profiles
\* POST /api/user-profiles (part_000:68-112) and
\* UserProfileService.getOrCreateUserProfile (.api/routers.js:389-449) over
\* the UserProfile table, whose clerkUserId column is declared @unique
\* (SUPASTACK_INTEGRATION.md:20).

ClerkUserIds == {"user_1", "user_2"}
NoProfile == 0

\* prisma.userProfile.findUnique({ where: { clerkUserId } }): the row's id,
\* or null
FindUnique(rows, clerkUserId) ==
    IF \E k \in DOMAIN rows : rows[k].clerkUserId = clerkUserId
    THEN rows[CHOOSE k \in DOMAIN rows :
                 rows[k].clerkUserId = clerkUserId].id
    ELSE NoProfile

\* `clerkUserId String @unique`: an insert of a value already present fails
UniqueViolation(rows, clerkUserId) ==
    \E k \in DOMAIN rows : rows[k].clerkUserId = clerkUserId

\* prisma.userProfile.create({ data: { clerkUserId, ... } })
Created(rows, clerkUserId) ==
    Append(rows, [id |-> Len(rows) + 1, clerkUserId |-> clerkUserId,
                  settings |-> FALSE])

\* part_000:68-81: the handler up to `await prisma.userProfile.findUnique`
PostUserProfile(clerkUserId) ==
    /\ Len(profileCalls) < MaxProfileCalls
    /\ profileCalls' =
          Append(profileCalls,
                 [via |-> "POST", clerkUserId |-> clerkUserId,
                  pc |-> "finding", code |-> 0, profile |-> NoProfile])
    /\ UNCHANGED <<healthVars, logVars, metricsVars, flights, apiRequests,
                   userProfiles>>

\* part_000:79-89: findUnique has resolved
PostFinds(i) ==
    /\ i \in DOMAIN profileCalls
    /\ profileCalls[i].via = "POST"
    /\ profileCalls[i].pc = "finding"
    /\ LET existingProfile ==
              FindUnique(userProfiles, profileCalls[i].clerkUserId)
       IN  profileCalls' =
              IF existingProfile # NoProfile
              THEN [profileCalls EXCEPT ![i].pc = "done", ![i].code = 200,
                                        ![i].profile = existingProfile]
              ELSE [profileCalls EXCEPT ![i].pc = "creating"]
    /\ UNCHANGED <<healthVars, logVars, metricsVars, flights, apiRequests,
                   userProfiles>>

\* part_000:91-111: create has resolved (201) or was rejected by the
\* database (the catch block answers 500)
PostCreates(i) ==
    /\ i \in DOMAIN profileCalls
    /\ profileCalls[i].via = "POST"
    /\ profileCalls[i].pc = "creating"
    /\ IF UniqueViolation(userProfiles, profileCalls[i].clerkUserId)
       THEN /\ profileCalls' = [profileCalls EXCEPT ![i].pc = "failed",
                                                    ![i].code = 500]
            /\ UNCHANGED userProfiles
       ELSE /\ userProfiles' =
                  Created(userProfiles, profileCalls[i].clerkUserId)
            /\ profileCalls' =
                  [profileCalls EXCEPT ![i].pc = "done", ![i].code = 201,
                                       ![i].profile = Len(userProfiles) + 1]
    /\ UNCHANGED <<healthVars, logVars, metricsVars, flights, apiRequests>>

\* .api/routers.js:389-407: the method up to its first await
GetOrCreateUserProfile(clerkUserId) ==
    /\ Len(profileCalls) < MaxProfileCalls
    /\ profileCalls' =
          Append(profileCalls,
                 [via |-> "service", clerkUserId |-> clerkUserId,
                  pc |-> "finding", code |-> 0, profile |-> NoProfile])
    /\ UNCHANGED <<healthVars, logVars, metricsVars, flights, apiRequests,
                   userProfiles>>

\* .api/routers.js:396-409, 440: findUnique has resolved
ServiceFinds(i) ==
    /\ i \in DOMAIN profileCalls
    /\ profileCalls[i].via = "service"
    /\ profileCalls[i].pc = "finding"
    /\ LET userProfile ==
              FindUnique(userProfiles, profileCalls[i].clerkUserId)
       IN  profileCalls' =
              IF userProfile # NoProfile
              THEN [profileCalls EXCEPT ![i].pc = "done",
                                        ![i].profile = userProfile]
              ELSE [profileCalls EXCEPT ![i].pc = "creating"]
    /\ UNCHANGED <<healthVars, logVars, metricsVars, flights, apiRequests,
                   userProfiles>>

\* .api/routers.js:409-426, 441-447: create has resolved, or was rejected
\* and the catch block rethrows
ServiceCreates(i) ==
    /\ i \in DOMAIN profileCalls
    /\ profileCalls[i].via = "service"
    /\ profileCalls[i].pc = "creating"
    /\ IF UniqueViolation(userProfiles, profileCalls[i].clerkUserId)
       THEN /\ profileCalls' = [profileCalls EXCEPT ![i].pc = "failed"]
            /\ UNCHANGED userProfiles
       ELSE /\ userProfiles' =
                  Created(userProfiles, profileCalls[i].clerkUserId)
            /\ profileCalls' =
                  [profileCalls EXCEPT ![i].pc = "settings",
                                       ![i].profile = Len(userProfiles) + 1]
    /\ UNCHANGED <<healthVars, logVars, metricsVars, flights, apiRequests>>

\* .api/routers.js:428-440: userSettings.create has resolved
ServiceCreatesSettings(i) ==
    /\ i \in DOMAIN profileCalls
    /\ profileCalls[i].via = "service"
    /\ profileCalls[i].pc = "settings"
    /\ userProfiles' =
          [userProfiles EXCEPT ![profileCalls[i].profile].settings = TRUE]
    /\ profileCalls' = [profileCalls EXCEPT ![i].pc = "done"]
    /\ UNCHANGED <<healthVars, logVars, metricsVars, flights, apiRequests>>

\* requests and calls that arrive while earlier ones wait for the database
NextProfiles ==
    \/ \E c \in ClerkUserIds : PostUserProfile(c)
    \/ \E i \in 1..MaxProfileCalls : PostFinds(i)
    \/ \E i \in 1..MaxProfileCalls : PostCreates(i)
    \/ \E c \in ClerkUserIds : GetOrCreateUserProfile(c)
    \/ \E i \in 1..MaxProfileCalls : ServiceFinds(i)
    \/ \E i \in 1..MaxProfileCalls : ServiceCreates(i)
    \/ \E i \in 1..MaxProfileCalls : ServiceCreatesSettings(i)

SpecProfiles == Init /\ [][NextProfiles]_vars

\* ------------------------------------------------------------ properties

Max(S) == CHOOSE x \in S : \A y \in S : y <= x

\* the largest timeoutMs among the probes of the invocation in flight
LargestTimeoutMs == Max({entries[n].timeout : n \in DOMAIN entries} \cup {0})

\* C1: an invocation returns no later than the largest timeoutMs among the
\* probes it runs: while it has not returned, no more than that has elapsed
\* since its probes were started.
C1_ReturnsWithinLargestTimeout ==
    pc = "running" =>
        \A n \in DOMAIN entries : now - startTime[n] <= LargestTimeoutMs

\* C2: the returned status is unhealthy iff some entry of the returned checks
\* is unhealthy (healthy when there is none); with app resolving true and
\* flaky resolving false the result is unhealthy, app healthy, flaky
\* unhealthy.
C2_UnhealthyIffSomeCheckUnhealthy ==
    ret.status # "none" =>
        /\ ret.status \in {"healthy", "unhealthy"}
        /\ ret.status = "unhealthy" <=>
               \E n \in DOMAIN ret.checks : ret.checks[n].status = "unhealthy"
        /\ ( /\ DOMAIN entries = {"app", "flaky"}
             /\ race["app"] = "probe" /\ promise["app"] = "true"
             /\ race["flaky"] = "probe" /\ promise["flaky"] = "false" )
           => /\ ret.status = "unhealthy"
              /\ ret.checks["app"].status = "healthy"
              /\ ret.checks["flaky"].status = "unhealthy"

C2_Witness ==
    /\ pc = "returned"
    /\ DOMAIN entries = {"app", "flaky"}
    /\ race["app"] = "probe" /\ promise["app"] = "true"
    /\ race["flaky"] = "probe" /\ promise["flaky"] = "false"
    /\ ret.status = "unhealthy"

\* C3: a running invocation never rejects, whatever its probes do: it goes
\* on or returns; it was started with every probe registered in its
\* category, returns one entry for each of them, and recording one probe's
\* outcome leaves every entry already recorded as it was.
C3_ProbeFailuresAreIsolated ==
    [][ /\ (pc # "running" /\ pc' = "running")
            => entries' = ChecksOf(category')
        /\ pc = "running" => pc' \in {"running", "returned"}
        /\ (pc = "running" /\ pc' = "returned")
            => /\ DOMAIN ret'.checks = DOMAIN entries
               /\ ret'.status \in {"healthy", "unhealthy"}
        /\ (pc = "running" /\ pc' = "running")
            => \A m \in DOMAIN results :
                  m \in DOMAIN results' /\ results'[m] = results[m]
      ]_vars

C3_Witness ==
    /\ pc = "returned"
    /\ \E n, m \in DOMAIN ret.checks :
          /\ ret.checks[n].status = "healthy"
          /\ ret.checks[m].message \in {ProbeErrorMessage, "Check timeout"}

\* C4: a probe whose timer fired before it settled is recorded as unhealthy
\* with message 'Check timeout' and a duration of at least its timeoutMs;
\* with timeoutMs = 100 the duration is 100.
C4_TimeoutIsRecorded ==
    \A n \in DOMAIN entries :
        race[n] = "timer" =>
            /\ results[n].status = "unhealthy"
            /\ results[n].message = "Check timeout"
            /\ results[n].duration >= entries[n].timeout
            /\ entries[n].timeout = 100 => results[n].duration = 100

C4_Witness ==
    /\ pc = "returned"
    /\ \E n \in DOMAIN entries :
          /\ race[n] = "timer"
          /\ promise[n] = "pending"
          /\ entries[n].timeout = 100
          /\ ret.checks[n].duration = 100

\* C5: an invocation runs, for every name registered in its category, the
\* probe that was registered last under that name, and no other probe: a
\* replaced probe is not among the probes it starts.
C5_OnlyLatestProbeIsInvoked ==
    [][ (pc # "running" /\ pc' = "running") =>
            \A n \in Names :
                IF registered[category'][n] = 0
                THEN n \notin DOMAIN entries'
                ELSE /\ n \in DOMAIN entries'
                     /\ entries'[n].gen = registered[category'][n]
      ]_vars

C5_Witness ==
    /\ pc = "returned"
    /\ \E n \in DOMAIN entries :
          /\ entries[n].gen = 2
          /\ n \in DOMAIN ret.checks

\* C6: within one invocation a recorded entry is never changed or removed,
\* the returned HealthStatus is never changed, and the invocation returns
\* only when every probe it started has a recorded entry; a probe that
\* settles after its timeout was recorded alters none of them.
C6_RecordedOutcomeIsFinal ==
    [][ invocations' = invocations =>
            /\ \A n \in DOMAIN results :
                  n \in DOMAIN results' /\ results'[n] = results[n]
            /\ ret.status # "none" => ret' = ret
            /\ pc' = "returned" =>
                  /\ DOMAIN results' = DOMAIN entries'
                  /\ ret'.checks = results'
      ]_vars

C6_Witness ==
    /\ pc \in {"returned", "responded"}
    /\ \E n \in DOMAIN entries :
          /\ race[n] = "timer"
          /\ promise[n] \in Outcomes
          /\ ret.checks[n].message = "Check timeout"

\* the text the value a probe raised carries
ThrownText(outcome) ==
    IF outcome = "throwError" THEN ProbeErrorMessage ELSE "plain failure"

\* the probes that settled, in this step, before their timer fired
SettlesNow(n) ==
    /\ n \in DOMAIN race /\ n \in DOMAIN race'
    /\ race[n] = "pending" /\ race'[n] = "probe"

\* C7 as stated: a probe that settles before its timer is recorded healthy
\* when it resolved true, unhealthy when it resolved false, and unhealthy
\* with the failure's own message when it raised, each with the elapsed
\* duration.
C7_SettledProbeIsRecorded_Original ==
    [][ \A n \in Names : SettlesNow(n) =>
            /\ results'[n].duration = now - startTime[n]
            /\ promise'[n] = "true" => results'[n].status = "healthy"
            /\ promise'[n] = "false" => results'[n].status = "unhealthy"
            /\ promise'[n] \in {"throwError", "throwOther"} =>
                  /\ results'[n].status = "unhealthy"
                  /\ results'[n].message = ThrownText(promise'[n])
      ]_vars

\* C7 as amended: ... unhealthy with the failure's message when it raised an
\* Error, and unhealthy with message 'Unknown error' when it raised a value
\* that is not an Error.
C7_SettledProbeIsRecorded ==
    [][ \A n \in Names : SettlesNow(n) =>
            /\ results'[n].duration = now - startTime[n]
            /\ promise'[n] = "true" => results'[n].status = "healthy"
            /\ promise'[n] = "false" => results'[n].status = "unhealthy"
            /\ promise'[n] = "throwError" =>
                  /\ results'[n].status = "unhealthy"
                  /\ results'[n].message = ThrownText("throwError")
            /\ promise'[n] = "throwOther" =>
                  /\ results'[n].status = "unhealthy"
                  /\ results'[n].message = "Unknown error"
      ]_vars

C7_Witness ==
    /\ \E n \in DOMAIN entries :
          /\ race[n] = "probe" /\ promise[n] = "false"
          /\ results[n].status = "unhealthy"
          /\ results[n].duration > 0
    /\ \E n \in DOMAIN entries :
          /\ race[n] = "probe" /\ promise[n] = "throwOther"
          /\ results[n].message = "Unknown error"

\* C8: every handler answers 200 exactly when the aggregate status is
\* healthy, 503 exactly when it is unhealthy, and 500 only when running the
\* checks failed.
C8_HttpStatusFollowsAggregate ==
    pc = "responded" =>
        /\ response.code = 200 <=> ret.status = "healthy"
        /\ response.code = 503 <=> ret.status = "unhealthy"
        /\ response.code = 500 <=> ret.status = "none"

\* a step in which logger i emitted an entry
LogsNow(i) == call'.logger = i /\ <<call, entry>>' # <<call, entry>>

\* C9: a record logged through L.withContext(extra) has the context
\* {...L's context, ...extra} and L's traceId, and withContext leaves every
\* existing logger, the receiver included, as it was.
C9_DerivedLoggerEmitsMergedContext ==
    [][ /\ \A i \in DOMAIN loggers :
              ( /\ LogsNow(i)
                /\ loggers[i].parent # 0
                /\ ~call'.context.def )
              => /\ entry'.context.map =
                       Spread(loggers[loggers[i].parent].context,
                              loggers[i].extra).map
                 /\ entry'.traceId = loggers[i].traceId
        /\ Len(loggers') > Len(loggers) =>
              /\ SubSeq(loggers', 1, Len(loggers)) = loggers
              /\ \E i \in DOMAIN loggers :
                    loggers'[Len(loggers')].traceId = loggers[i].traceId
      ]_vars

\* C10: every emitted record has the level of the method called, a context
\* equal to the logger's standing context overlaid with the per-call
\* context, and the logger's traceId at the moment of the call.
C10_RecordCombinesStandingAndCallContext ==
    [][ \A i \in DOMAIN loggers : LogsNow(i) =>
            /\ entry'.level = call'.method
            /\ entry'.context.map =
                  Spread(loggers[i].context, call'.context).map
            /\ entry'.traceId = loggers[i].traceId
      ]_vars

\* the current value of a series, 0 when the series is absent
SeriesValue(m, name, labelKey) ==
    IF MapHas(m, name) /\ MapHas(MapGet(m, name), labelKey)
    THEN MapGet(MapGet(m, name), labelKey)
    ELSE 0

\* a step in which the named updating method of the Metrics instance ran
Calls(op) == metricCall'.op = op /\ metricCalls' = metricCalls + 1

\* C11: counter(name, d, labels) leaves the series at its former value (0
\* when absent) plus d, so a sequence of calls leaves it at the sum of the
\* d_i (5 then 3 gives 8); gauge(name, v, labels) leaves the series at v, so
\* a sequence of calls leaves it at the last v_i (5 then 3 gives 3).
C11_CounterSumsGaugeKeepsLast ==
    [][ /\ Calls("counter") =>
              SeriesValue(counters', metricCall'.name,
                          getLabelKey(metricCall'.labels))
              = SeriesValue(counters, metricCall'.name,
                            getLabelKey(metricCall'.labels))
                + metricCall'.value
        /\ Calls("gauge") =>
              SeriesValue(gauges', metricCall'.name,
                          getLabelKey(metricCall'.labels))
              = metricCall'.value
      ]_vars

C11_Witness ==
    /\ metricCall.op = "gauge"
    /\ metricCall.value = Num(3)
    /\ SeriesValue(gauges, "g", getLabelKey(NoLabels)) = Num(3)
    /\ SeriesValue(counters, "c", getLabelKey(NoLabels)) = Num(8)
    /\ metricCalls = 4

\* label objects holding the same key/value pairs, in whatever order
SamePairs(l1, l2) ==
    /\ l1.given /\ l2.given
    /\ {l1.entries[i] : i \in DOMAIN l1.entries}
       = {l2.entries[i] : i \in DOMAIN l2.entries}

\* C12: label sets holding the same key/value pairs in different insertion
\* order have the same canonical key, and a counter call made with one of
\* them adds to the series the other addresses: {b:"2", a:"1"} and
\* {a:"1", b:"2"} update one shared value.
C12_InsertionOrderIsIrrelevant ==
    [][ Calls("counter") =>
            \A l \in LabelArgs : SamePairs(l, metricCall'.labels) =>
                /\ getLabelKey(l) = getLabelKey(metricCall'.labels)
                /\ SeriesValue(counters', metricCall'.name, getLabelKey(l))
                   = SeriesValue(counters, metricCall'.name, getLabelKey(l))
                     + metricCall'.value
      ]_vars

C12_Witness ==
    /\ metricCall.op = "counter"
    /\ metricCall.labels = LabelsAB
    /\ SeriesValue(counters, "c", getLabelKey(LabelsBA)) = Num(8)
    /\ Len(MapGet(counters, "c")) = 1

\* C13: an update made with an empty label object {} addresses the series
\* that an update made with no labels argument addresses, and getMetrics
\* renders that series without a {labels} segment.
C13_EmptyLabelSetsShareOneSeries ==
    [][ /\ ( Calls("counter") /\ metricCall'.labels = EmptyLabels ) =>
              SeriesValue(counters', metricCall'.name, getLabelKey(NoLabels))
              = SeriesValue(counters, metricCall'.name, getLabelKey(NoLabels))
                + metricCall'.value
        /\ metricCall'.op = "getMetrics" =>
              \A n \in CounterNames :
                  ( /\ MapHas(counters, n)
                    /\ MapHas(MapGet(counters, n), getLabelKey(EmptyLabels)) )
                  => \E i \in DOMAIN text' :
                        /\ text'[i].text = <<n>>
                        /\ text'[i].value =
                              <<SeriesValue(counters, n,
                                            getLabelKey(EmptyLabels))>>
      ]_vars

\* C14: two consecutive getMetrics() calls with no other call on the
\* registry in between return the same text.
C14_GetMetricsIsIdempotent ==
    [][ ( metricCall.op = "getMetrics" /\ metricCall'.op = "getMetrics" )
            => text' = text
      ]_vars

\* C15: the text getMetrics() returns has, for every gauge series that has
\* been set, a line `name{labels} value` showing the value last written.
C15_GaugesAreRendered ==
    metricCall.op = "getMetrics" =>
        \A g \in DOMAIN gauges : \A s \in DOMAIN gauges[g].val :
            \E i \in DOMAIN text :
                text[i] = Sample(<<gauges[g].key>>
                                    \o LabelSegment(gauges[g].val[s].key),
                                 gauges[g].val[s].val)

\* the canonical keys observeHttp is to address
StatusKey(m, p, s) ==
    <<"method", "=\"", m, "\"", ",", "path", "=\"", p, "\"", ",",
      "status", "=\"", ToString(s), "\"">>
DurationKey(m, p) ==
    <<"http_request_duration_seconds", "{",
      "method", "=\"", m, "\"", ",", "path", "=\"", p, "\"", "}">>

\* the observations of a histogram series, none when the series is absent
Observations(hs, metricKey) ==
    IF MapHas(hs, metricKey) THEN MapGet(hs, metricKey) ELSE <<>>

\* the (name, labelKey) pairs of the series a map holds
SeriesOf(m) ==
    UNION {{<<m[i].key, m[i].val[j].key>> : j \in DOMAIN m[i].val} :
              i \in DOMAIN m}

\* C16: observeHttp(method, path, statusCode, ms) adds 1 to
\* http_requests_total{method,path,status}, appends ms/1000 to the duration
\* histogram labelled {method,path}, adds 1 to
\* http_errors_total{method,path,status} if and only if statusCode >= 400,
\* and leaves every other series as it was.
C16_ObserveHttpUpdatesItsSeries ==
    [][ Calls("observeHttp") =>
          LET m == metricCall'.method
              p == metricCall'.path
              s == metricCall'.statusCode
              t == metricCall'.responseTime
              Expected(name, key) ==
                  IF name = "http_requests_total" /\ key = StatusKey(m, p, s)
                  THEN Num(1)
                  ELSE IF /\ name = "http_errors_total"
                          /\ key = StatusKey(m, p, s)
                          /\ s >= 400
                  THEN Num(1)
                  ELSE 0
          IN  /\ \A x \in SeriesOf(counters) \cup SeriesOf(counters')
                        \cup {<<"http_requests_total", StatusKey(m, p, s)>>,
                              <<"http_errors_total", StatusKey(m, p, s)>>} :
                    SeriesValue(counters', x[1], x[2])
                    = SeriesValue(counters, x[1], x[2]) + Expected(x[1], x[2])
              /\ s < 400 =>
                    <<"http_errors_total", StatusKey(m, p, s)>>
                        \notin SeriesOf(counters') \ SeriesOf(counters)
              /\ gauges' = gauges
              /\ \E v \in 0..(t * Milli) :
                    /\ 1000 * v = t * Milli
                    /\ Observations(histograms', DurationKey(m, p))
                       = Append(Observations(histograms, DurationKey(m, p)), v)
              /\ \A i \in DOMAIN histograms' :
                    histograms'[i].key # DurationKey(m, p) =>
                        /\ i \in DOMAIN histograms
                        /\ histograms[i] = histograms'[i]
              /\ Len(histograms') <= Len(histograms) + 1
      ]_vars

C16_Witness ==
    /\ metricCall.op = "observeHttp"
    /\ metricCall.statusCode = 400
    /\ SeriesValue(counters, "http_requests_total",
                   StatusKey("GET", "/x", 400)) = Num(1)
    /\ SeriesValue(counters, "http_errors_total",
                   StatusKey("GET", "/x", 400)) = Num(1)
    /\ SeriesValue(counters, "http_requests_total",
                   StatusKey("GET", "/x", 399)) = Num(1)
    /\ <<"http_errors_total", StatusKey("GET", "/x", 399)>>
           \notin SeriesOf(counters)
    /\ Observations(histograms, DurationKey("GET", "/x")) = <<120, 120>>

\* C17: the getMetrics() that follows a reset() returns the text a freshly
\* constructed registry returns, whatever calls preceded the reset; that text
\* has the header comments (and the blank lines between them) and no sample
\* line.
C17_ResetRestoresTheFreshText ==
    [][ ( metricCall.op = "reset" /\ metricCall'.op = "getMetrics" ) =>
            /\ text' = Render(<<>>, <<>>)
            /\ \A i \in DOMAIN text' : text'[i].value = <<>>
            /\ Len(text') = 8
      ]_vars

C17_Witness ==
    /\ metricCall.op = "getMetrics"
    /\ metricCalls = 3
    /\ counters = <<>> /\ gauges = <<>> /\ histograms = <<>>
    /\ text = Render(<<>>, <<>>)

\* C18: within one counter name every canonical label-set key holds one
\* value, and no counter() call makes the value of a counter series
\* smaller.
C18_CountersNeverDecrease ==
    [][ /\ \A c \in DOMAIN counters' :
              \A i, j \in DOMAIN counters'[c].val :
                  counters'[c].val[i].key = counters'[c].val[j].key => i = j
        /\ Calls("counter") =>
              \A x \in SeriesOf(counters) :
                  SeriesValue(counters', x[1], x[2])
                  >= SeriesValue(counters, x[1], x[2])
      ]_vars

\* C19: a GET /healthz (resp. /readyz) that a server receives after
\* POST /simulate-unhealthy for liveness (resp. readiness) and before
\* POST /restore-healthy reports the check 'test-failure' as unhealthy and
\* the aggregate as unhealthy; one received after POST /restore-healthy
\* reports 'test-failure' as healthy.
C19_SimulationDecidesTestFailure ==
    ( pc = "responded" /\ caller \in Servers /\ ret.status # "none" ) =>
        /\ simulationAtStart = "unhealthy" =>
              /\ TestFailure \in DOMAIN ret.checks
              /\ ret.checks[TestFailure].status = "unhealthy"
              /\ ret.status = "unhealthy"
        /\ simulationAtStart = "restored" =>
              /\ TestFailure \in DOMAIN ret.checks
              /\ ret.checks[TestFailure].status = "healthy"

\* C20: a probe is raced against a timer of the timeoutMs it was registered
\* with (5000 when the argument was omitted), 0 included: it is never still
\* unsettled later than that after its start, and it is recorded as timed
\* out exactly then.
C20_TimerRunsForRegisteredTimeout ==
    [][ /\ pc' = "running" =>
              \A n \in DOMAIN entries' :
                  race'[n] = "pending" =>
                      now' - startTime'[n] <= entries'[n].timeout
        /\ \A n \in DOMAIN race :
              ( /\ n \in DOMAIN race'
                /\ race[n] = "pending" /\ race'[n] = "timer" )
              => /\ now = startTime[n] + entries[n].timeout
                 /\ results'[n].message = "Check timeout"
      ]_vars

\* the sample lines of a text
Samples(t) == {i \in DOMAIN t : t[i].value # <<>>}

\* C21: in every sample line getMetrics emits, the metric name with its
\* suffix comes first and at most one {...} label segment follows it: no
\* piece of the line comes after the closing brace of the series labels.
C21_HistogramLinesAreWellFormed ==
    metricCall.op = "getMetrics" =>
        \A i \in Samples(text) : \A j \in DOMAIN text[i].text :
            text[i].text[j] = "}" => j = Len(text[i].text)

\* the position of a comment line in a text, 0 when it is absent
LineOf(t, c) ==
    IF \E i \in DOMAIN t : t[i] = Comment(c)
    THEN CHOOSE i \in DOMAIN t : t[i] = Comment(c)
    ELSE 0

\* C22: every sample line stands after the # HELP/# TYPE lines of its own
\* family and before the header of the next family: the lines under the
\* http_requests_total header are http_requests_total samples, the lines
\* under the http_request_duration_seconds header belong to that histogram,
\* and http_errors_total samples stand under the http_errors_total header.
C22_SamplesFollowTheirOwnHeader ==
    metricCall.op = "getMetrics" =>
        LET requests == LineOf(text, "# TYPE http_requests_total counter")
            duration ==
                LineOf(text, "# HELP http_request_duration_seconds HTTP request duration in seconds")
            errors == LineOf(text, "# TYPE http_errors_total counter")
        IN  \A i \in Samples(text) :
                /\ (requests < i /\ i < duration)
                       <=> text[i].text[1] = "http_requests_total"
                /\ (duration < i /\ i < errors)
                       <=> text[i].text[1] = "http_request_duration_seconds"
                /\ errors < i <=> text[i].text[1] = "http_errors_total"

RECURSIVE ExactSum(_)
\* the sum of a sequence of whole numbers
ExactSum(s) == IF s = <<>> THEN 0 ELSE Head(s) + ExactSum(Tail(s))

\* the value of the sample line with the given pieces (-1 when absent)
ValueOf(t, pieces) ==
    LET found == {i \in DOMAIN t : t[i].text = pieces /\ t[i].value # <<>>}
    IN  IF found = {} THEN 0 - 1
        ELSE t[CHOOSE i \in found : TRUE].value[1]

\* x is the element at 0-based index k of the ascending order of values
IsOrderStatistic(values, k, x) ==
    /\ \E i \in DOMAIN values : values[i] = x
    /\ Cardinality({i \in DOMAIN values : values[i] < x}) <= k
    /\ k < Cardinality({i \in DOMAIN values : values[i] <= x})

PercentileSuffix(p) ==
    IF p = 50 THEN "_p50" ELSE IF p = 95 THEN "_p95" ELSE "_p99"

Shown(t, pieces) == IF ValueOf(t, pieces) < 0 THEN 0 ELSE ValueOf(t, pieces)

RequestsLine(m, p, s) ==
    <<"http_requests_total", "{">> \o StatusKey(m, p, s) \o <<"}">>
ErrorsLine(m, p, s) ==
    <<"http_errors_total", "{">> \o StatusKey(m, p, s) \o <<"}">>

RECURSIVE RequestsShown(_, _, _, _)
\* the requests a text shows for a route, all status codes together
RequestsShown(t, m, p, codes) ==
    IF codes = {} THEN 0
    ELSE LET s == CHOOSE x \in codes : TRUE
         IN  Shown(t, RequestsLine(m, p, s))
             + RequestsShown(t, m, p, codes \ {s})

\* C24: the text of a getMetrics() call never shows part of an observeHttp
\* call: for every route it shows as many requests as duration
\* observations, and for every status >= 400 as many errors as requests
\* (none for a status below 400).
C24_SnapshotShowsWholeObservations ==
    metricCall.op = "getMetrics" =>
        \A m \in Methods, p \in Paths :
            /\ RequestsShown(text, m, p, StatusCodes)
               = Shown(text, DurationKey(m, p) \o <<"_count">>)
            /\ \A s \in StatusCodes :
                  Shown(text, ErrorsLine(m, p, s))
                  = IF s >= 400 THEN Shown(text, RequestsLine(m, p, s)) ELSE 0

C24_Witness ==
    /\ metricCall.op = "getMetrics"
    /\ Shown(text, RequestsLine("GET", "/x", 399)) = Num(1)
    /\ Shown(text, RequestsLine("GET", "/x", 400)) = Num(1)
    /\ Shown(text, ErrorsLine("GET", "/x", 400)) = Num(1)
    /\ Shown(text, DurationKey("GET", "/x") \o <<"_count">>) = Num(2)

\* C25: getMetrics() leaves every counter, gauge and histogram as it was,
\* the order of each histogram's observations included.
C25_GetMetricsIsReadOnly ==
    [][ metricCall'.op = "getMetrics" =>
            /\ counters' = counters
            /\ gauges' = gauges
            /\ histograms' = histograms
      ]_vars

\* C27: once checkLiveness/checkReadiness has returned, the timeout timer of
\* every probe that settled before its timeout is no longer pending.
C27_NoTimerOutlivesTheCall ==
    pc = "returned" =>
        \A n \in DOMAIN entries : race[n] = "probe" => timer[n] # "armed"

\* the entry an invocation has to report for a probe, given what the probe
\* did: the outcome of the probe it called, or the timeout
OwnStatus(f, n) ==
    IF f.race[n] = "timer" THEN "unhealthy"
    ELSE IF f.promise[n] = "true" THEN "healthy" ELSE "unhealthy"

\* C26: the checks map an invocation returns has exactly the names that were
\* registered in its category when it started, each with the verdict of the
\* probe registered at that moment (a probe that resolves false is reported
\* unhealthy without a message even when it was replaced meanwhile), a step
\* of one invocation changes no other invocation, and no step of an
\* invocation changes a registry.
C26_InvocationsAreIsolated ==
    [][ /\ \A i \in DOMAIN flights' :
              flights'[i].pc = "returned" =>
                  /\ DOMAIN flights'[i].ret.checks = DOMAIN flights'[i].entries
                  /\ \A n \in DOMAIN flights'[i].entries :
                        /\ flights'[i].ret.checks[n].status
                              = OwnStatus(flights'[i], n)
                        /\ flights'[i].entries[n].probe = "false" =>
                              /\ flights'[i].promise[n] = "false"
                              /\ flights'[i].ret.checks[n].message = Undefined
        /\ \A i \in DOMAIN flights :
              /\ flights'[i].entries = flights[i].entries
              /\ flights'[i] # flights[i] =>
                    \A j \in DOMAIN flights \ {i} : flights'[j] = flights[j]
        /\ Len(flights') > Len(flights) =>
              flights'[Len(flights')].entries
                 = ChecksOf(flights'[Len(flights')].category)
        /\ flights' # flights =>
              /\ livenessChecks' = livenessChecks
              /\ readinessChecks' = readinessChecks
      ]_vars

\* two invocations of the same category in flight at once, the first one
\* having returned the verdict of a probe that was replaced after its start
C26_Witness ==
    \E i, j \in DOMAIN flights :
        /\ i < j
        /\ flights[i].category = "liveness"
        /\ flights[j].category = "liveness"
        /\ flights[i].pc = "returned"
        /\ flights[j].pc = "running"
        /\ "app" \in DOMAIN flights[i].entries
        /\ flights[i].entries["app"].probe = "false"
        /\ flights[j].entries["app"].probe = EnvProbe
        /\ flights[j].results = EmptyMap
        /\ flights[i].ret.checks["app"].status = "unhealthy"

\* C28: every record emitted for an API-client request carries in its
\* traceId field the trace id generated for that request and sent in its
\* X-Trace-Id header, also when requests overlap.
C28_RecordsCarryOwnTraceId ==
    \A i \in DOMAIN apiRequests :
        \A k \in DOMAIN apiRequests[i].records :
            apiRequests[i].records[k].traceId = apiRequests[i].header

\* the sum of the series of a counter
RECURSIVE SumOfSeries(_)
SumOfSeries(series) ==
    IF series = <<>> THEN 0
    ELSE series[1].val + SumOfSeries(Tail(series))

CounterTotal(cs, name) ==
    IF MapHas(cs, name) THEN SumOfSeries(MapGet(cs, name)) ELSE 0

\* C30: a request that ends in the response error interceptor, with an
\* error status or with no response at all, is counted as exactly one
\* request and adds 1 to http_errors_total.
C30_FailureCountsOneRequestOneError ==
    [][ \A i \in DOMAIN apiRequests :
            (apiRequests[i].pc = "sent" /\ apiRequests'[i].pc = "failed") =>
                /\ CounterTotal(counters', "http_requests_total")
                      = CounterTotal(counters, "http_requests_total") + Num(1)
                /\ CounterTotal(counters', "http_errors_total")
                      = CounterTotal(counters, "http_errors_total") + Num(1)
      ]_vars

\* C29: whatever the interleaving of POST /api/user-profiles requests and
\* getOrCreateUserProfile calls, at most one UserProfile exists for a
\* clerkUserId, no request or call fails, and each one that has completed
\* returned the profile of its clerkUserId.
C29_OneProfileAndEveryCallSucceeds ==
    /\ \A c \in ClerkUserIds :
          Cardinality({k \in DOMAIN userProfiles :
                          userProfiles[k].clerkUserId = c}) <= 1
    /\ \A i \in DOMAIN profileCalls :
          /\ profileCalls[i].pc # "failed"
          /\ profileCalls[i].pc = "done" =>
                /\ profileCalls[i].profile \in DOMAIN userProfiles
                /\ userProfiles[profileCalls[i].profile].clerkUserId
                      = profileCalls[i].clerkUserId

====
